---- MODULE Spec2Model ----
(***************************************************************************)
(* CompressorEngine of strategies.py: the packed move score, the position  *)
(* score, the alpha-beta recursion _recur and the search controller.       *)
(*                                                                         *)
(* A position is opaque to the engine (python-chess owns it).  The model   *)
(* sees of a position only what the code asks of it: the list of its       *)
(* legal moves, a move being its index 1..n in board.legal_moves (0 is     *)
(* None), and the _score_move value of each legal move.  A position is     *)
(* revealed when the code first lists its legal moves; the search visits   *)
(* every position at most once, so the answers are consistent.            *)
(***************************************************************************)
EXTENDS Integers, Sequences, FiniteSets, TLC

\* ---------------------------------------------------------------- bounds
\* Most legal moves a position offers.
MaxMoves == 3
\* The _score_move values met during a search are 1..MaxScore.
MaxScore == 3
\* Largest configured MAX_DEPTH.
MaxDepth == 3
\* Most positions below the root that one search is shown.
MaxPositions == 9
\* Squares a scored move may use: 0..SquareEdge and 63.
SquareEdge == 1
\* Positional deltas a scored move may have: the smallest, the largest and
\* those at most this far from zero.
DeltaEdge == 1
\* Squares of the boards handed to _pawn_attacks.
NumSquares == 3

VARIABLES
    RANDOM,        \* module constant RANDOM
    MAX_DEPTH,     \* module constant MAX_DEPTH (also _ab_search's default)
    pc,            \* "idle" | "run" | "done" | "error": where search() is
    nlegal,        \* len(list(board.legal_moves)) of the position searched
    keys,          \* heuristic mode: _score_move of each legal move
    stack,         \* the activations of _recur, outermost first
    ret,           \* <<>> or <<r>>: the pair a _recur call just returned
    board,         \* board.move_stack, relative to the call of search()
    move_counter,  \* CompressorEngine.move_counter
    result,        \* PlayResult.move of the last call (0 is None)
    reported,      \* the count this call printed as NUM MOVES EVALUATED
    pushes,        \* history: board.push calls made since search() began
    revealed,      \* history: positions below the root shown to this call
    earlier,       \* history: a call before this one pushed moves
    rootKids,      \* history: exhaustive minimax value of each root child
    cut,           \* history: a loop of this call was left by break
    fields,        \* the six fields of a move handed to _score_move
    packed,        \* <<>> or <<_score_move of fields>>
    pboard,        \* position handed to _pawn_attacks
    pmove,         \* move handed to _pawn_attacks
    exposure       \* <<>> or <<_pawn_attacks(pboard, pmove)>>

searchVars == <<RANDOM, MAX_DEPTH, pc, nlegal, keys, stack, ret, board,
                move_counter, result, reported, pushes, revealed, earlier,
                rootKids, cut>>
scoreVars == <<fields, packed>>
pawnVars == <<pboard, pmove, exposure>>
vars == <<searchVars, scoreVars, pawnVars>>

\* ------------------------------------------------------------ sentinels
\* int(10**32) in the source.  TLC's integers have 32 bits; the code only
\* compares INF with packed scores, all below 2^29 in magnitude, so the
\* model keeps the one property the code uses: INF exceeds every score.
INF == 2^30
NEG_INF == -INF

None == 0

Scores == 1..MaxScore

Max2(a, b) == IF a >= b THEN a ELSE b
Min2(a, b) == IF a <= b THEN a ELSE b

\* The positions a board can show: the _score_move value of each legal move,
\* in board.legal_moves order.
Positions == UNION {[1..n -> Scores] : n \in 0..MaxMoves}

RECURSIVE SeqMax(_)
SeqMax(s) ==
    IF Len(s) = 1 THEN s[1]
    ELSE Max2(s[Len(s)], SeqMax(SubSeq(s, 1, Len(s) - 1)))

\* max((_score_move(board, m) for m in board.legal_moves), default=NEG_INF)
_score_board(moves) == IF Len(moves) = 0 THEN NEG_INF ELSE SeqMax(moves)

\* _recur, depth <= 0.
LeafValue(moves) ==
    IF Len(moves) = 0 THEN NEG_INF ELSE _score_board(moves)

\* _recur, a node with no legal moves, maximizing or minimizing.
NoMovesValue_Conventional(maximize) == IF maximize THEN NEG_INF ELSE INF
NoMovesValue(maximize) == NEG_INF

\* best_val before the loop.
InitialBest(maximize) == IF maximize THEN NEG_INF ELSE INF

\* if s > best_val / if s < best_val
Improves_NonStrict(maximize, s, best_val) ==
    IF maximize THEN s >= best_val ELSE s <= best_val
Improves(maximize, s, best_val) ==
    IF maximize THEN s > best_val ELSE s < best_val

\* if beta < s: break
MaxBreak(beta, s) == beta < s

\* if s <= alpha: break
MinBreak_Flipped(alpha, s) == alpha <= s
MinBreak(alpha, s) == s <= alpha

\* board.push(m) and board.pop()
BoardPush(b, m) == Append(b, m)
BoardPop_Missing(b) == b
BoardPop(b) == SubSeq(b, 1, Len(b) - 1)

\* CompressorEngine.move_counter = 0
ResetCounter_Missing(c) == c
ResetCounter(c) == 0

Reverse(s) == [i \in 1..Len(s) |-> s[Len(s) + 1 - i]]

\* Stable insertion of x into the ascending list s: after every element
\* whose key is not larger.
RECURSIVE InsertAsc(_, _, _)
InsertAsc(s, x, key) ==
    IF Len(s) = 0 THEN <<x>>
    ELSE IF key[s[Len(s)]] <= key[x] THEN Append(s, x)
    ELSE Append(InsertAsc(SubSeq(s, 1, Len(s) - 1), x, key), s[Len(s)])

\* list.sort(): stable, ascending by key.
RECURSIVE StableSortAsc(_, _)
StableSortAsc(s, key) ==
    IF Len(s) = 0 THEN <<>>
    ELSE InsertAsc(StableSortAsc(SubSeq(s, 1, Len(s) - 1), key),
                   s[Len(s)], key)

\* sorted(s, key=..., reverse=True): CPython reverses the list, sorts it
\* stably ascending, and reverses the outcome, so that equal keys keep the
\* order they had in s.
SortedReverse_AscThenFlip(s, key) == Reverse(StableSortAsc(s, key))
SortedReverse(s, key) == Reverse(StableSortAsc(Reverse(s), key))

\* ------------------------------------------------------- the move scorer
\* Piece-square tables, indexed by chess piece type (PAWN = 1 .. KING = 6)
\* and then by square + 1.
PSQT == <<
    \* chess.PAWN
    <<
      0, 0, 0, 0, 0, 0, 0, 0,
      50, 50, 50, 50, 50, 50, 50, 50,
      10, 10, 20, 30, 30, 20, 10, 10,
      5, 5, 10, 25, 25, 10, 5, 5,
      0, 0, 0, 20, 21, 0, 0, 0,
      5, -5, -10, 0, 0, -10, -5, 5,
      5, 10, 10, -31, -31, 10, 10, 5,
      0, 0, 0, 0, 0, 0, 0, 0
    >>,
    \* chess.KNIGHT
    <<
      -50, -40, -30, -30, -30, -30, -40, -50,
      -40, -20, 0, 0, 0, 0, -20, -40,
      -30, 0, 10, 15, 15, 10, 0, -30,
      -30, 5, 15, 20, 20, 15, 5, -30,
      -30, 0, 15, 20, 20, 15, 0, -30,
      -30, 5, 10, 15, 15, 11, 5, -30,
      -40, -20, 0, 5, 5, 0, -20, -40,
      -50, -40, -30, -30, -30, -30, -40, -50
    >>,
    \* chess.BISHOP
    <<
      -20, -10, -10, -10, -10, -10, -10, -20,
      -10, 0, 0, 0, 0, 0, 0, -10,
      -10, 0, 5, 10, 10, 5, 0, -10,
      -10, 5, 5, 10, 10, 5, 5, -10,
      -10, 0, 10, 10, 10, 10, 0, -10,
      -10, 10, 10, 10, 10, 10, 10, -10,
      -10, 5, 0, 0, 0, 0, 5, -10,
      -20, -10, -10, -10, -10, -10, -10, -20
    >>,
    \* chess.ROOK
    <<
      0, 0, 0, 0, 0, 0, 0, 0,
      5, 10, 10, 10, 10, 10, 10, 5,
      -5, 0, 0, 0, 0, 0, 0, -5,
      -5, 0, 0, 0, 0, 0, 0, -5,
      -5, 0, 0, 0, 0, 0, 0, -5,
      -5, 0, 0, 0, 0, 0, 0, -5,
      -5, 0, 0, 0, 0, 0, 0, -5,
      0, 0, 0, 5, 5, 0, 0, 0
    >>,
    \* chess.QUEEN
    <<
      -20, -10, -10, -5, -5, -10, -10, -20,
      -10, 0, 0, 0, 0, 0, 0, -10,
      -10, 0, 5, 5, 5, 5, 0, -10,
      -5, 0, 5, 5, 5, 5, 0, -5,
      0, 0, 5, 5, 5, 5, 0, -5,
      -10, 5, 5, 5, 5, 5, 0, -10,
      -10, 0, 5, 0, 0, 0, 0, -10,
      -20, -10, -10, -5, -5, -10, -10, -20
    >>,
    \* chess.KING
    <<
      -30, -40, -40, -50, -50, -40, -40, -30,
      -30, -40, -40, -50, -50, -40, -40, -30,
      -30, -40, -40, -50, -50, -40, -40, -30,
      -30, -40, -40, -50, -50, -40, -40, -30,
      -20, -30, -30, -40, -40, -30, -30, -20,
      -10, -20, -20, -20, -20, -20, -20, -10,
      20, 20, 0, 0, 0, 0, 20, 20,
      1, 30, 10, 0, 0, 10, 30, 2
    >>
>>

PieceTypes == 1..6
AllSquares == 0..63

\* chess.square_mirror: the square's rank flipped (square ^ 0x38).
square_mirror(square) == (7 - (square \div 8)) * 8 + (square % 8)

\* color is TRUE for chess.WHITE and FALSE for chess.BLACK.
_piece_value(color, piece_type, square) ==
    PSQT[piece_type][(IF color = FALSE THEN square
                                       ELSE square_mirror(square)) + 1]

\* _move_value, with piece_type = board.piece_type_at(move.from_square).
_move_value(turn, piece_type, from_square, to_square) ==
    _piece_value(turn, piece_type, to_square)
        - _piece_value(turn, piece_type, from_square)

\* x << k on Python's unbounded integers, negative x included.
Shl(x, k) == x * 2^k

\* _score_move on the values its sub-expressions evaluate to:
\* m.promotion is move.promotion or 0, m.capture is board.is_capture(move)
\* as 0 or 1, m.pawn is _pawn_attacks(board, move), m.value is
\* _move_value(board, move).
_score_move_NarrowValueShift(m) ==
    Shl(m.promotion, 26) + Shl(m.capture, 25) + Shl(m.pawn, 22)
        + (512 + Shl(m.value, 6)) + Shl(m.to_square, 6) + m.from_square
_score_move(m) ==
    Shl(m.promotion, 26) + Shl(m.capture, 25) + Shl(m.pawn, 22)
        + (512 + Shl(m.value, 12)) + Shl(m.to_square, 6) + m.from_square

\* _pawn_attacks: b.pawns is board.pieces(chess.PAWN, not board.turn),
\* b.attacks[s] is board.attacks(s), the squares attacked from s, and
\* b.piece_type_at[s] is board.piece_type_at(s).
_pawn_attacks(b, move) ==
    LET pawn_attacks == b.pawns \cap b.attacks[move.to_square]
    IN IF pawn_attacks = {} THEN 6
       ELSE 5 - b.piece_type_at[move.from_square]

\* --------------------------------------------------------- the recursion
Top == stack[Len(stack)]
Running == pc = "run"
Returned == Len(ret) = 1

\* What a call returns: (move, val).  The rest is history: n is the number
\* of legal moves of the call's position, mm its exhaustive minimax value,
\* dead says that a position without legal moves was met in the part of
\* the subtree the call searched, entry is the move stack the call was
\* entered with.
Ret(move, val, n, mm, dead, entry) ==
    [move |-> move, val |-> val, n |-> n, mm |-> mm, dead |-> dead,
     entry |-> entry]

\* A call _recur(depth, board, maximize, alpha, beta), at its first line.
Frame(depth, maximize, alpha, beta, entry) ==
    [at |-> "entry", depth |-> depth, maximize |-> maximize,
     alpha |-> alpha, beta |-> beta, n |-> 0, k |-> 0,
     best_move |-> None, best_val |-> 0, mm |-> 0, dead |-> FALSE,
     entry |-> entry]

SetTop(f) == [stack EXCEPT ![Len(stack)] = f]
PopFrame == SubSeq(stack, 1, Len(stack) - 1)

\* The numbers of legal moves the position of the top frame may have: the
\* root is the position search() was called on, and a game tree has at most
\* MaxPositions positions below its root.
Offered ==
    IF Len(stack) = 1 THEN {nlegal}
    ELSE 0..Min2(MaxMoves, MaxPositions - revealed)

\* A call of search begins: the history of the call before it is dropped.
NewCall(n) ==
    /\ pushes' = 0
    /\ revealed' = n
    /\ earlier' = (earlier \/ pushes > 0)
    /\ rootKids' = <<>>
    /\ cut' = FALSE

\* Exhaustive minimax, the reference the search is compared with: a
\* position at depth 0 is worth its _score_board, a position without legal
\* moves -INF, any other the largest (maximizing) or smallest (minimizing)
\* worth of its children, none of them left out.
MinimaxLeaf(moves) == _score_board(moves)
MinimaxNoMoves == NEG_INF
MinimaxStart(maximize) == IF maximize THEN NEG_INF ELSE INF
MinimaxStep(maximize, v, child) ==
    IF maximize THEN Max2(v, child) ELSE Min2(v, child)

\* Values an unsearched subtree can have under exhaustive minimax.
ChildValues == Scores \cup {NEG_INF}

Idle == pc \in {"idle", "done", "error"}

scoreUnchanged == UNCHANGED <<scoreVars, pawnVars>>

\* search(), RANDOM: random.choice(list(board.legal_moves)); returns before
\* the counter is printed and reset.
SearchRandom ==
    /\ Idle /\ RANDOM
    /\ \E n \in 0..MaxMoves :
        /\ nlegal' = n
        /\ IF n = 0
           THEN /\ pc' = "error"
                /\ result' = None
           ELSE /\ pc' = "done"
                /\ \E m \in 1..n : result' = m
        /\ NewCall(n)
    /\ keys' = <<>>
    /\ reported' = 0
    /\ UNCHANGED <<RANDOM, MAX_DEPTH, stack, ret, board, move_counter>>
    /\ scoreUnchanged

\* search(), MAX_DEPTH == -1: sorted(legal moves, key=_score_move,
\* reverse=True)[0], then the counter is printed and reset.
SearchHeuristic ==
    /\ Idle /\ ~RANDOM /\ MAX_DEPTH = -1
    /\ \E moves \in Positions :
        /\ nlegal' = Len(moves)
        /\ keys' = moves
        /\ IF Len(moves) = 0
           THEN /\ pc' = "error"
                /\ result' = None
                /\ reported' = 0
                /\ UNCHANGED move_counter
           ELSE /\ pc' = "done"
                /\ result' =
                      SortedReverse([i \in 1..Len(moves) |-> i], moves)[1]
                /\ reported' = move_counter
                /\ move_counter' = ResetCounter(move_counter)
        /\ NewCall(Len(moves))
    /\ UNCHANGED <<RANDOM, MAX_DEPTH, stack, ret, board>>
    /\ scoreUnchanged

\* search(), otherwise: self._ab_search(board), which calls
\* _recur(MAX_DEPTH, board, True) with alpha=NEG_INF, beta=INF.  The depth
\* is _ab_search's default, the value the module constant MAX_DEPTH had
\* when the class was defined.
SearchFull ==
    /\ Idle /\ ~RANDOM /\ MAX_DEPTH # -1
    /\ \E n \in 0..MaxMoves : nlegal' = n /\ NewCall(n)
    /\ pc' = "run"
    /\ stack' = <<Frame(MAX_DEPTH, TRUE, NEG_INF, INF, board)>>
    /\ ret' = <<>>
    /\ keys' = <<>>
    /\ result' = None
    /\ reported' = 0
    /\ UNCHANGED <<RANDOM, MAX_DEPTH, board, move_counter>>
    /\ scoreUnchanged

\* _recur: if depth <= 0: return None, (NEG_INF if no legal moves else
\* _score_board(board)).
Leaf ==
    /\ Running /\ Len(stack) > 0 /\ Top.at = "entry" /\ Top.depth <= 0
    /\ \E moves \in Positions :
        /\ Len(moves) \in Offered
        /\ ret' = <<Ret(None, LeafValue(moves), Len(moves),
                        MinimaxLeaf(moves), Len(moves) = 0, Top.entry)>>
    /\ stack' = PopFrame
    /\ UNCHANGED <<RANDOM, MAX_DEPTH, pc, nlegal, keys, board, move_counter,
                   result, reported, pushes, revealed, earlier, rootKids,
                   cut>>
    /\ scoreUnchanged

\* _recur: if len(legal_moves) == 0: return None, NEG_INF (both branches).
NoMoves ==
    /\ Running /\ Len(stack) > 0 /\ Top.at = "entry" /\ Top.depth > 0
    /\ 0 \in Offered
    /\ ret' = <<Ret(None, NoMovesValue(Top.maximize), 0,
                    MinimaxNoMoves, TRUE, Top.entry)>>
    /\ stack' = PopFrame
    /\ UNCHANGED <<RANDOM, MAX_DEPTH, pc, nlegal, keys, board, move_counter,
                   result, reported, pushes, revealed, earlier, rootKids,
                   cut>>
    /\ scoreUnchanged

\* _recur: best_move, best_val = legal_moves[0], NEG_INF (INF when
\* minimizing).
Expand ==
    /\ Running /\ Len(stack) > 0 /\ Top.at = "entry" /\ Top.depth > 0
    /\ \E n \in Offered \ {0} :
        /\ stack' = SetTop([Top EXCEPT !.at = "loop", !.n = n, !.k = 0,
                              !.best_move = 1,
                              !.best_val = InitialBest(Top.maximize),
                              !.mm = MinimaxStart(Top.maximize)])
        /\ revealed' = IF Len(stack) = 1 THEN revealed ELSE revealed + n
    /\ UNCHANGED <<RANDOM, MAX_DEPTH, pc, nlegal, keys, ret, board,
                   move_counter, result, reported, pushes, earlier,
                   rootKids, cut>>
    /\ scoreUnchanged

\* _recur, loop body up to the recursive call: move_counter += 1;
\* board.push(m); _recur(depth - 1, board, not maximize, alpha, beta).
Descend ==
    /\ Running /\ Len(stack) > 0 /\ Top.at = "loop" /\ Top.k < Top.n
    /\ LET m == Top.k + 1
           b == BoardPush(board, m)
       IN /\ move_counter' = move_counter + 1
          /\ board' = b
          /\ stack' = Append(SetTop([Top EXCEPT !.at = "child", !.k = m]),
                             Frame(Top.depth - 1, ~Top.maximize,
                                   Top.alpha, Top.beta, b))
    /\ pushes' = pushes + 1
    /\ UNCHANGED <<RANDOM, MAX_DEPTH, pc, nlegal, keys, ret, result,
                   reported, revealed, earlier, rootKids, cut>>
    /\ scoreUnchanged

\* _recur, loop body after the recursive call: board.pop(); update best_val
\* and best_move; widen alpha (narrow beta); break on beta < s (s <= alpha).
Resume ==
    /\ Running /\ Len(stack) > 0 /\ Top.at = "child" /\ Returned
    /\ LET f == Top
           s == ret[1].val
           better == Improves(f.maximize, s, f.best_val)
           bv == IF better THEN s ELSE f.best_val
           bm == IF better THEN f.k ELSE f.best_move
           a == IF f.maximize THEN Max2(bv, f.alpha) ELSE f.alpha
           b == IF f.maximize THEN f.beta ELSE Min2(bv, f.beta)
           brk == IF f.maximize THEN MaxBreak(f.beta, s)
                                ELSE MinBreak(f.alpha, s)
           ref == MinimaxStep(f.maximize, f.mm, ret[1].mm)
       IN /\ board' = BoardPop(board)
          /\ stack' = SetTop([f EXCEPT !.at = IF brk THEN "exit" ELSE "loop",
                                       !.best_val = bv, !.best_move = bm,
                                       !.alpha = a, !.beta = b,
                                       !.mm = ref,
                                       !.dead = f.dead \/ ret[1].dead])
          /\ cut' = (cut \/ (brk /\ f.k < f.n))
          /\ rootKids' = IF Len(stack) = 1
                         THEN Append(rootKids, ret[1].mm) ELSE rootKids
    /\ ret' = <<>>
    /\ UNCHANGED <<RANDOM, MAX_DEPTH, pc, nlegal, keys, move_counter,
                   result, reported, pushes, revealed, earlier>>
    /\ scoreUnchanged

\* _recur: return best_move, best_val, after the loop ran out or broke.
\* The children a break skipped may have any value; they enter mm only.
Return ==
    /\ Running /\ Len(stack) > 0
    /\ \/ Top.at = "loop" /\ Top.k = Top.n
       \/ Top.at = "exit"
    /\ \E rest \in [(Top.k + 1)..Top.n -> ChildValues] :
        LET RECURSIVE Fold(_, _)
            Fold(v, i) ==
                IF i > Top.n THEN v
                ELSE Fold(MinimaxStep(Top.maximize, v, rest[i]), i + 1)
        IN ret' = <<Ret(Top.best_move, Top.best_val, Top.n,
                        Fold(Top.mm, Top.k + 1), Top.dead, Top.entry)>>
    /\ stack' = PopFrame
    /\ UNCHANGED <<RANDOM, MAX_DEPTH, pc, nlegal, keys, board, move_counter,
                   result, reported, pushes, revealed, earlier, rootKids,
                   cut>>
    /\ scoreUnchanged

\* _ab_search: return _recur(...)[0]; search(): print the counter, reset
\* it, return PlayResult(best_move, ...).
Finish ==
    /\ Running /\ Len(stack) = 0 /\ Returned
    /\ result' = ret[1].move
    /\ reported' = move_counter
    /\ move_counter' = ResetCounter(move_counter)
    /\ pc' = "done"
    /\ UNCHANGED <<RANDOM, MAX_DEPTH, nlegal, keys, stack, ret, board,
                   pushes, revealed, earlier, rootKids, cut>>
    /\ scoreUnchanged

SearchIdle ==
    /\ pc = "idle"
    /\ nlegal = 0
    /\ keys = <<>>
    /\ stack = <<>>
    /\ ret = <<>>
    /\ board = <<>>
    /\ move_counter = 0
    /\ result = None
    /\ reported = 0
    /\ pushes = 0
    /\ revealed = 0
    /\ earlier = FALSE
    /\ rootKids = <<>>
    /\ cut = FALSE

ScoreIdle == fields = <<>> /\ packed = <<>>
PawnIdle == pboard = <<>> /\ pmove = <<>> /\ exposure = <<>>

\* The module is loaded with one of the recognised configurations.
Init ==
    /\ RANDOM \in BOOLEAN
    /\ MAX_DEPTH \in -1..MaxDepth
    /\ SearchIdle
    /\ ScoreIdle
    /\ PawnIdle

Next ==
    \/ SearchRandom
    \/ SearchHeuristic
    \/ SearchFull
    \/ Leaf
    \/ NoMoves
    \/ Expand
    \/ Descend
    \/ Resume
    \/ Return
    \/ Finish

Spec == Init /\ [][Next]_vars

\* ------------------------------------------------- _score_move on its own
Promotions == {0, 2, 3, 4, 5}
Captures == {0, 1}
\* What _pawn_attacks can return.
PawnTiers == {6} \cup {5 - t : t \in PieceTypes}
\* What _move_value can return.
MoveValues ==
    {_move_value(c, t, f, g) :
        c \in BOOLEAN, t \in PieceTypes, f \in AllSquares, g \in AllSquares}
MinValue == CHOOSE v \in MoveValues : \A w \in MoveValues : v <= w
MaxValue == CHOOSE v \in MoveValues : \A w \in MoveValues : v >= w
EdgeValues ==
    {v \in MoveValues : \/ v = MinValue
                        \/ v = MaxValue
                        \/ (v <= DeltaEdge /\ -v <= DeltaEdge)}
EdgeSquares == (0..SquareEdge) \cup {63}
MoveFields ==
    [promotion : Promotions, capture : Captures, pawn : PawnTiers,
     value : EdgeValues, to_square : EdgeSquares, from_square : EdgeSquares]

InitScore ==
    /\ RANDOM = FALSE
    /\ MAX_DEPTH = -1
    /\ SearchIdle
    /\ fields \in MoveFields
    /\ packed = <<>>
    /\ PawnIdle

ScoreMove ==
    /\ packed = <<>>
    /\ packed' = <<_score_move(fields)>>
    /\ UNCHANGED <<searchVars, fields, pawnVars>>

SpecScore == InitScore /\ [][ScoreMove]_vars

\* ------------------------------------------------ _pawn_attacks on its own
PawnSquares == 0..(NumSquares - 1)
PawnMoves ==
    {m \in [from_square : PawnSquares, to_square : PawnSquares] :
        m.from_square # m.to_square}
\* The boards a move is made on: no enemy pawn stands on the square the
\* move leaves, no square is attacked from itself, and of piece_type_at only
\* the square the move leaves is asked.
PawnBoards(move) ==
    {b \in [pawns : SUBSET (PawnSquares \ {move.from_square}),
            attacks : [PawnSquares -> SUBSET PawnSquares],
            piece_type_at : [{move.from_square} -> PieceTypes]] :
        \A s \in PawnSquares : s \notin b.attacks[s]}

InitPawn ==
    /\ RANDOM = FALSE
    /\ MAX_DEPTH = -1
    /\ SearchIdle
    /\ ScoreIdle
    /\ pmove \in PawnMoves
    /\ pboard \in PawnBoards(pmove)
    /\ exposure = <<>>

PawnAttacks ==
    /\ exposure = <<>>
    /\ exposure' = <<_pawn_attacks(pboard, pmove)>>
    /\ UNCHANGED <<searchVars, scoreVars, pboard, pmove>>

SpecPawn == InitPawn /\ [][PawnAttacks]_vars

\* ------------------------------------------------------------ properties
FullMode == ~RANDOM /\ MAX_DEPTH # -1
HeuristicMode == ~RANDOM /\ MAX_DEPTH = -1
\* The root call of _recur has returned and _ab_search has not gone on.
RootReturned == Running /\ Len(stack) = 0 /\ Returned

\* C1: on a position with at least one legal move, search returns, in
\* every recognised configuration (random, heuristic, any depth >= 0), a
\* move that is present and is one of the position's legal moves.
C1_SearchReturnsLegalMove ==
    (pc = "done" /\ nlegal >= 1) => result \in 1..nlegal

\* C2: the value the root call _recur(d, position, True, -INF, +INF)
\* returns, for any depth d >= 1, is the exhaustive minimax value of the
\* position at depth d: pruning never changes the root value.
C2_RootValueIsMinimax ==
    (RootReturned /\ MAX_DEPTH >= 1) => ret[1].val = ret[1].mm

\* The root call of a depth-3 search returns a score after a loop below it
\* was left by break with moves still unsearched.
C2_Witness ==
    /\ RootReturned /\ MAX_DEPTH = 3 /\ cut
    /\ ret[1].val \in Scores
    /\ nlegal >= 2

\* C3: called on a position without legal moves, search ends in a reported
\* error in every mode and never returns a result.
C3_NoLegalMovesIsAnError ==
    (nlegal = 0 /\ pc \in {"done", "error"}) => pc = "error"

\* C4: every board.push of the recursion is undone by one board.pop
\* before the frame that made it returns, break or not: a call of _recur is
\* at each of its own lines on the move stack it was entered with, returns
\* with that move stack, search ends on the move stack it began with, and
\* no more moves are ever pushed than the configured depth.
C4_PushPopBalanced ==
    /\ (Running /\ Len(stack) > 0 /\ Top.at # "child") => board = Top.entry
    /\ (Running /\ Returned) => board = ret[1].entry
    /\ Running => Len(board) <= MAX_DEPTH
    /\ pc = "done" => board = <<>>

\* A frame two plies down has left its loop by break, moves unsearched, and
\* its own push is undone.
C4_Witness ==
    /\ Running /\ Len(stack) = 3 /\ Top.at = "exit" /\ Top.k < Top.n
    /\ Len(board) = 2

\* C5: _score_move(a) < _score_move(b) exactly when the fields of a,
\* (promotion, capture, pawnExposure, moveValue, toSquare, fromSquare), are
\* lexicographically smaller than those of b.
FieldTuple(m) ==
    <<m.promotion, m.capture, m.pawn, m.value, m.to_square, m.from_square>>
\* x comes before y lexicographically: smaller at the first place where
\* they differ.
RECURSIVE LexLessFrom(_, _, _)
LexLessFrom(x, y, i) ==
    IF i > Len(x) THEN FALSE
    ELSE IF x[i] # y[i] THEN x[i] < y[i]
    ELSE LexLessFrom(x, y, i + 1)
LexLess(x, y) == LexLessFrom(x, y, 1)
\* Every move of MoveFields with its score.
ScoredFields == {<<_score_move(b), FieldTuple(b)>> : b \in MoveFields}
C5_ScoreOrderIsLexicographic ==
    packed # <<>> =>
        LET a == FieldTuple(fields)
        IN \A b \in ScoredFields : (packed[1] < b[1]) <=> LexLess(a, b[2])

\* A scored move whose exposure tier and positional delta are both
\* negative, so that both borrow from the fields above them.
C5_Witness ==
    /\ packed # <<>>
    /\ fields.pawn = -1 /\ fields.value = MinValue /\ fields.capture = 1
    /\ fields.promotion = 0

C7_CounterCountsThisCall ==
    /\ Idle => move_counter = 0
    /\ Running => move_counter = pushes
    /\ (pc = "done" /\ ~RANDOM) => reported = pushes

\* A call that pushed moves has reported its count after an earlier call
\* pushed moves of its own.
C7_Witness ==
    /\ pc = "done" /\ FullMode /\ earlier /\ reported >= 2

\* C8: the tier _pawn_attacks computes is 6 exactly when no pawn of the
\* side not to move attacks the destination square, and 5 minus the moving
\* piece's type otherwise.
EnemyPawnAttacks(b, square) == \E p \in b.pawns : square \in b.attacks[p]
C8_TierFollowsPawnAttackers ==
    exposure # <<>> =>
        exposure[1] = IF ~EnemyPawnAttacks(pboard, pmove.to_square) THEN 6
                      ELSE 5 - pboard.piece_type_at[pmove.from_square]

\* C9 as stated: _recur returns +INF or -INF only for a position
\* without legal moves.
C9_SentinelOnlyWithoutMoves ==
    (Running /\ Returned /\ ret[1].val \in {INF, NEG_INF}) => ret[1].n = 0

\* C9, amended: _recur never returns +INF, and returns -INF only when a
\* position without legal moves was met in the subtree the call searched:
\* its own position or one below it.
C9_SentinelOnlyFromDeadPosition ==
    (Running /\ Returned) =>
        /\ ret[1].val # INF
        /\ ret[1].val = NEG_INF => ret[1].dead
        /\ ret[1].n = 0 => ret[1].val = NEG_INF

\* A call on a position with legal moves returns -INF.
C9_Witness ==
    Running /\ Returned /\ ret[1].n > 0 /\ ret[1].val = NEG_INF

\* C10: at depth >= 1 on a position with legal moves the root loop
\* searches every move, and the move returned is the first move in
\* board.legal_moves whose exhaustive minimax value equals the best of them;
\* a move worth -INF is returned only if no move before it is worth more.
C10_RootMoveIsFirstBest ==
    (pc = "done" /\ FullMode /\ MAX_DEPTH >= 1 /\ nlegal >= 1) =>
        /\ Len(rootKids) = nlegal
        /\ result \in 1..nlegal
        /\ \A j \in 1..nlegal : rootKids[j] <= rootKids[result]
        /\ \A j \in 1..(result - 1) : rootKids[j] < rootKids[result]
        /\ rootKids[result] = NEG_INF =>
              \A j \in 1..result : rootKids[j] = NEG_INF

\* A depth-3 search with pruning below the root has answered on a position
\* whose root moves tie at a score.
C10_Witness ==
    /\ pc = "done" /\ FullMode /\ MAX_DEPTH = 3 /\ cut
    /\ nlegal >= 2
    /\ rootKids[1] \in Scores
    /\ \A j \in 1..nlegal : rootKids[j] = rootKids[1]

====
